---- MODULE Spec2Model ----
(***************************************************************************)
(* A model of defode/variable.py: the Variable state machine, the          *)
(* dependency classifier (classify_all, split_given_vars), the SymbolMap   *)
(* and the emission of compute(), odefun() and timedepfun() by             *)
(* ODESet.render.                                                          *)
(*                                                                         *)
(* Objects are referred to by identity.  A reference is a record           *)
(* [k, v]: k = "Variable" and v the creation index of the variable (0 is   *)
(* ODESet.time), k = "Calculation" and v the creation index of the         *)
(* expression node, k = "int" / "float" for a raw numeric literal with     *)
(* value v (v.0 for a float), k = "None" for Python's None.                *)
(***************************************************************************)
EXTENDS Integers, Sequences, FiniteSets, TLC

\* Bounds of the model.
MaxVars == 2
MaxCalcs == 2
MaxSymNodes == 2

\* Variable.FREE, Variable.COMPUTED, Variable.EVOLVING.
FREE == 0
COMPUTED == 1
EVOLVING == 2

VARIABLES
    variables,    \* ODESet.variables: the OrderedDict, as a sequence of [name, var]
    state,        \* Variable.state of every Variable (index 0 is ODESet.time)
    calculation,  \* Variable.calculation of every Variable
    calcs,        \* the Calculation nodes built so far: [cls, terms]
    pc,           \* "build", "classify" (inside classify_all's loop), "done", "raised"
    pending,      \* classify_all: the work-list
    seen,         \* classify_all: the visited set
    graph,        \* classify_all: the DiGraph, [nodes, edges]
    out,          \* what render produced
    err,          \* the exception render ended with ("" for none)
    log,          \* the last compute/evolve call and its outcome
    store,        \* SymbolMap.store
    count,        \* SymbolMap.count: the next value of itertools.count()
    ret           \* the last [item, name] SymbolMap.representation returned

vars == <<variables, state, calculation, calcs, pc, pending, seen, graph,
          out, err, log, store, count, ret>>

NoneRef == [k |-> "None", v |-> 0]
Var(i) == [k |-> "Variable", v |-> i]
Calc(i) == [k |-> "Calculation", v |-> i]
IntLit(n) == [k |-> "int", v |-> n]
FloatLit(n) == [k |-> "float", v |-> n]

\* ODESet.time
time == Var(0)

\* isinstance(x, Calculation), isinstance(x, Variable), isinstance(x, Node),
\* isinstance(x, (int, float))
IsCalculation(x) == x.k = "Calculation"
IsVariable(x) == x.k = "Variable"
IsNode(x) == x.k \in {"Variable", "Calculation"}
IsNumber(x) == x.k \in {"int", "float"}

\* Variable.is_free, is_calculated, is_evolving
is_free(st, x) == st[x.v] = FREE
is_calculated(st, x) == st[x.v] = COMPUTED
is_evolving(st, x) == st[x.v] = EVOLVING

\* Calculation.dependencies: the terms that are Nodes, in order
dependencies(cs, x) == SelectSeq(cs[x.v].terms, IsNode)

\* The names the model draws for ODESet.new, and the literals and classes
\* it draws for the expressions it builds.
AllNames == <<"x", "y", "z", "w", "u", "t">>
\* new is called with the next unused name or with a name already in use
NameInputs == {AllNames[i] : i \in 1..(IF Len(variables) < Len(AllNames)
                                        THEN Len(variables) + 1
                                        ELSE Len(AllNames))}
Literals == {IntLit(2)}
BinaryClasses == {"Multiply"}

CreatedVars == {Var(i) : i \in 1..Len(variables)}
CreatedCalcs == {Calc(i) : i \in 1..Len(calcs)}
Nodes == {time} \cup CreatedVars \cup CreatedCalcs

NoRender == [constants |-> <<>>, time_deps |-> <<>>]
NoLog == [op |-> "", var |-> NoneRef, arg |-> NoneRef, yes_really |-> FALSE,
          had_rule |-> FALSE, raised |-> "", warned |-> FALSE]

Init ==
    /\ variables = <<>>
    /\ state = [i \in {0} |-> FREE]
    /\ calculation = [i \in {0} |-> NoneRef]
    /\ calcs = <<>>
    /\ pc = "build"
    /\ pending = <<>>
    /\ seen = {}
    /\ graph = [nodes |-> {}, edges |-> {}]
    /\ out = NoRender
    /\ err = ""
    /\ log = NoLog
    /\ store = <<>>
    /\ count = 0
    /\ ret = [item |-> NoneRef, name |-> ""]

\* ODESet.new(name): a duplicate name and a name that is no string raise
\* ValueError and leave the set as it was.
New(name, isString) ==
    /\ pc = "build"
    /\ Len(variables) < MaxVars
    /\ IF (\E i \in 1..Len(variables) : variables[i].name = name) \/ ~isString
       THEN UNCHANGED <<variables, state, calculation>>
       ELSE LET created == Len(variables) + 1 IN
            /\ variables' = Append(variables, [name |-> name, var |-> Var(created)])
            /\ state' = (created :> FREE) @@ state
            /\ calculation' = (created :> NoneRef) @@ calculation
    /\ UNCHANGED <<calcs, pc, pending, seen, graph, out, err, log, store, count, ret>>

\* Constant(arg): Calculation.__init__ with one term.
NewConstant(arg) ==
    /\ pc = "build"
    /\ Len(calcs) < MaxCalcs
    /\ calcs' = Append(calcs, [cls |-> "Constant", terms |-> <<arg>>])
    /\ UNCHANGED <<variables, state, calculation, pc, pending, seen, graph, out,
                   err, log, store, count, ret>>

\* Node.__add__ / __radd__ / __mul__ / __rmul__ / __sub__ / __rsub__ /
\* __div__ / __rdiv__: one operand is a Node, the other a Node or a number.
NewBinary(cls, a, b) ==
    /\ pc = "build"
    /\ Len(calcs) < MaxCalcs
    /\ IsNode(a) \/ IsNode(b)
    /\ calcs' = Append(calcs, [cls |-> cls, terms |-> <<a, b>>])
    /\ UNCHANGED <<variables, state, calculation, pc, pending, seen, graph, out,
                   err, log, store, count, ret>>

\* Variable._update without its assertion.
UpdateResult_m(v, new_calculation, new_state, yes_really) ==
    LET wrap == ~IsCalculation(new_calculation)
        cs == IF wrap
              THEN Append(calcs, [cls |-> "Constant", terms |-> <<new_calculation>>])
              ELSE calcs
        nc == IF wrap THEN Calc(Len(cs)) ELSE new_calculation
    IN [raised |-> "",
        warned |-> (~yes_really /\ calculation[v.v] # NoneRef),
        state |-> [state EXCEPT ![v.v] = new_state],
        calculation |-> [calculation EXCEPT ![v.v] = nc],
        calcs |-> cs]

\* Variable._update: what a call does to the variable and to the nodes.
\* yes_really with no rule to override fails the assertion; a rule that is
\* no Calculation is wrapped into a new Constant.
UpdateResult(v, new_calculation, new_state, yes_really) ==
    IF yes_really /\ calculation[v.v] = NoneRef
    THEN [raised |-> "AssertionError", warned |-> FALSE,
          state |-> state, calculation |-> calculation, calcs |-> calcs]
    ELSE LET wrap == ~IsCalculation(new_calculation)
             cs == IF wrap
                   THEN Append(calcs, [cls |-> "Constant", terms |-> <<new_calculation>>])
                   ELSE calcs
             nc == IF wrap THEN Calc(Len(cs)) ELSE new_calculation
         IN [raised |-> "",
             warned |-> (~yes_really /\ calculation[v.v] # NoneRef),
             state |-> [state EXCEPT ![v.v] = new_state],
             calculation |-> [calculation EXCEPT ![v.v] = nc],
             calcs |-> cs]

Update(v, new_calculation, new_state, yes_really) ==
    LET r == UpdateResult(v, new_calculation, new_state, yes_really) IN
    /\ pc = "build"
    /\ Len(r.calcs) <= MaxCalcs
    /\ state' = r.state
    /\ calculation' = r.calculation
    /\ calcs' = r.calcs
    /\ UNCHANGED <<variables, pc, pending, seen, graph, out, err, store, count, ret>>

\* Variable.compute and Variable.evolve
Compute ==
    \E v \in CreatedVars, nc \in Nodes \cup Literals, yes_really \in BOOLEAN :
        Update(v, nc, COMPUTED, yes_really) /\ UNCHANGED log

Evolve ==
    \E v \in CreatedVars, nc \in Nodes \cup Literals, yes_really \in BOOLEAN :
        Update(v, nc, EVOLVING, yes_really) /\ UNCHANGED log

NewVariable == \E name \in NameInputs, isString \in BOOLEAN : New(name, isString)

MakeCalc ==
    \/ \E arg \in Nodes \cup Literals : NewConstant(arg)
    \/ \E cls \in BinaryClasses, a, b \in Nodes \cup Literals : NewBinary(cls, a, b)

\* ---------------------------------------------------------------- classify_all

\* graph.add_edge(a, b): both ends become nodes of the graph
add_edge(g, a, b) == [nodes |-> g.nodes \cup {a, b}, edges |-> g.edges \cup {<<a, b>>}]

RECURSIVE add_edges_to(_, _, _)
add_edges_to(g, items, current) ==
    IF items = <<>> THEN g
    ELSE add_edges_to(add_edge(g, Head(items), current), Tail(items), current)

\* ODESet.render up to the loop of classify_all: the graph holds time, the
\* work-list holds the set's variables, nothing is seen.
RenderStart ==
    /\ pc = "build"
    /\ pc' = "classify"
    /\ graph' = [nodes |-> {time}, edges |-> {}]
    /\ pending' = [i \in 1..Len(variables) |-> variables[i].var]
    /\ seen' = {}
    /\ UNCHANGED <<variables, state, calculation, calcs, out, err, log, store, count, ret>>

\* pending[-1] read in place of pending.pop(): nothing leaves the list
pop_m(p) == p

\* pending.pop(): the list without its last element
pop(p) == SubSeq(p, 1, Len(p) - 1)

\* One iteration of classify_all's while loop.
ClassifyIter ==
    /\ pc = "classify"
    /\ pending # <<>>
    /\ LET current == pending[Len(pending)]
           rest == pop(pending)
           seen1 == seen \cup {current}
           unseen(item) == item \notin seen1
       IN /\ seen' = seen1
          /\ IF IsCalculation(current)
             THEN LET deps == dependencies(calcs, current) IN
                  /\ graph' = add_edges_to(graph, deps, current)
                  /\ pending' = rest \o SelectSeq(deps, unseen)
             ELSE IF is_calculated(state, current)
             THEN LET calc == calculation[current.v] IN
                  /\ graph' = add_edge(graph, calc, current)
                  /\ pending' = IF calc \notin seen1 THEN Append(rest, calc) ELSE rest
             ELSE IF is_evolving(state, current)
             THEN LET calc == calculation[current.v] IN
                  /\ graph' = add_edge(graph, time, current)
                  /\ pending' = IF calc \notin seen1 THEN Append(rest, calc) ELSE rest
             ELSE /\ graph' = graph
                  /\ pending' = rest
    /\ UNCHANGED <<variables, state, calculation, calcs, pc, out, err, log, store, count, ret>>

\* NX.topological_sort: the orders of the graph's nodes in which every edge
\* points forward.  networkx fixes none of them; a graph with a cycle has
\* none, and networkx raises NetworkXUnfeasible.
RECURSIVE topological_sorts(_, _)
topological_sorts(nodes, edges) ==
    IF nodes = {} THEN {<<>>}
    ELSE UNION { { <<n>> \o s : s \in topological_sorts(nodes \ {n}, edges) } :
                 n \in { m \in nodes : ~\E p \in nodes : <<p, m>> \in edges } }

\* NX.single_source_shortest_path_length(graph, source): its keys are the
\* nodes reachable from source, source included.
RECURSIVE reach_from(_, _)
reach_from(edges, found) ==
    LET more == found \cup { e[2] : e \in { d \in edges : d[1] \in found } } IN
    IF more = found THEN found ELSE reach_from(edges, more)

single_source_shortest_path_length(g, source) == reach_from(g.edges, {source})

\* classify_all returning target[True], target[False]
partition_m(tsort, time_deps) ==
    [constants |-> SelectSeq(tsort, LAMBDA item : item \in time_deps),
     time_deps |-> SelectSeq(tsort, LAMBDA item : item \notin time_deps)]

\* The partition of classify_all's last lines: target[False], target[True]
partition(tsort, time_deps) ==
    [constants |-> SelectSeq(tsort, LAMBDA item : item \notin time_deps),
     time_deps |-> SelectSeq(tsort, LAMBDA item : item \in time_deps)]

\* ------------------------------------------------------------ split_given_vars

\* split_given_vars(time_deps, desired): one pass over the (name, variable)
\* pairs; the assertion fails on a free variable found in time_deps.
RECURSIVE split_from(_, _, _)
split_from(time_deps, desired, acc) ==
    IF desired = <<>> THEN acc
    ELSE LET item == Head(desired)
             variable == item.var
         IN IF is_evolving(state, variable)
            THEN split_from(time_deps, Tail(desired),
                            [acc EXCEPT !.evolving = Append(@, item)])
            ELSE IF is_calculated(state, variable)
            THEN IF variable \in time_deps
                 THEN split_from(time_deps, Tail(desired),
                                 [acc EXCEPT !.time_dep = Append(@, item)])
                 ELSE split_from(time_deps, Tail(desired),
                                 [acc EXCEPT !.derived_constants = Append(@, item)])
            ELSE IF variable \in time_deps
                 THEN [acc EXCEPT !.raised = "AssertionError"]
                 ELSE split_from(time_deps, Tail(desired),
                                 [acc EXCEPT !.inputs = Append(@, item)])

\* split_given_vars with inputs.insert(0, ...) in place of inputs.append
split_given_vars_m(time_deps, desired) ==
    LET r == split_from({time_deps[i] : i \in 1..Len(time_deps)}, desired,
                        [raised |-> "", inputs |-> <<>>, derived_constants |-> <<>>,
                         evolving |-> <<>>, time_dep |-> <<>>])
    IN [r EXCEPT !.inputs = [i \in 1..Len(r.inputs) |-> r.inputs[Len(r.inputs) + 1 - i]]]

split_given_vars(time_deps, desired) ==
    split_from({time_deps[i] : i \in 1..Len(time_deps)}, desired,
               [raised |-> "", inputs |-> <<>>, derived_constants |-> <<>>,
                evolving |-> <<>>, time_dep |-> <<>>])

\* ------------------------------------------------------------------- SymbolMap

\* SymbolMap.__init__
NewSymbolMap == [store |-> <<>>, count |-> 0]

\* self.pattern % n, with pattern 'var%i'
VarName(n) == "var" \o ToString(n)

\* repr of an int or of a float with an integral value
repr(item) == IF item.k = "int" THEN ToString(item.v) ELSE ToString(item.v) \o ".0"

\* SymbolMap.representation without self.store[item] = next_name
representation_m(sm, item) ==
    IF IsNumber(item) THEN [name |-> repr(item), sm |-> sm]
    ELSE IF item \in DOMAIN sm.store THEN [name |-> sm.store[item], sm |-> sm]
    ELSE [name |-> VarName(sm.count),
          sm |-> [store |-> sm.store, count |-> sm.count + 1]]

\* SymbolMap.representation(item): the name, and the map after the call
representation(sm, item) ==
    IF IsNumber(item) THEN [name |-> repr(item), sm |-> sm]
    ELSE IF item \in DOMAIN sm.store THEN [name |-> sm.store[item], sm |-> sm]
    ELSE LET next_name == VarName(sm.count) IN
         [name |-> next_name,
          sm |-> [store |-> (item :> next_name) @@ sm.store, count |-> sm.count + 1]]

\* -------------------------------------------------------------------- emission

\* One emitted statement: t is "load" (lhs = arr[ind]), "time" (lhs = *time),
\* "ptr" (constants = input + ind), "def" (lhs = the expression of class cls
\* over the names rhs) or "store" (arr[ind] = rhs[1]).
\* ' + '.join(...), ' * '.join(...), ' - '.join(...), ' / '.join(...)
separator(cls) ==
    IF cls = "Sum" THEN " + "
    ELSE IF cls = "Multiply" THEN " * "
    ELSE IF cls = "Difference" THEN " - "
    ELSE " / "

RECURSIVE join(_, _)
join(sep, strs) ==
    IF strs = <<>> THEN ""
    ELSE IF Len(strs) = 1 THEN strs[1]
    ELSE strs[1] \o sep \o join(sep, Tail(strs))

\* Constant.render, Sum.render, Multiply.render, Difference.render,
\* Division.render: what the node writes, given the names of its terms
render(cls, strs) == IF cls = "Constant" THEN strs[1] ELSE join(separator(cls), strs)

\* The line of source text a statement is.
StmtText(t, lhs, rhs, arr, ind, cls) ==
    IF t = "load" THEN "const double " \o lhs \o " = " \o arr \o "[" \o ToString(ind) \o "];"
    ELSE IF t = "time" THEN "const double " \o lhs \o " = *time;"
    ELSE IF t = "ptr" THEN "const double *constants = input + " \o ToString(ind) \o ";"
    ELSE IF t = "store" THEN arr \o "[" \o ToString(ind) \o "] = " \o rhs[1] \o ";"
    ELSE IF cls = "Variable" THEN "const double " \o lhs \o " = " \o rhs[1] \o ";"
    ELSE "const double " \o lhs \o " = " \o render(cls, rhs) \o ";"

Stmt(t, lhs, rhs, arr, ind, cls) ==
    [t |-> t, lhs |-> lhs, rhs |-> rhs, arr |-> arr, ind |-> ind, cls |-> cls,
     text |-> StmtText(t, lhs, rhs, arr, ind, cls)]

\* Calculation.names: [name_map(item) for item in self.terms]
RECURSIVE names(_, _, _)
names(sm, terms, acc) ==
    IF terms = <<>> THEN [names |-> acc, sm |-> sm]
    ELSE LET r == representation(sm, Head(terms)) IN
         names(r.sm, Tail(terms), Append(acc, r.name))

\* _blat: 'const double %s = %s[%i]' for every (name, variable), from index ind
RECURSIVE _blat(_, _, _, _)
_blat(em, pattern, iterable, ind) ==
    IF iterable = <<>> THEN em
    ELSE LET r == representation(em.sm, Head(iterable).var) IN
         _blat([sm |-> r.sm,
                code |-> Append(em.code, Stmt("load", r.name, <<>>, pattern, ind, ""))],
               pattern, Tail(iterable), ind + 1)

\* 'const double %s = %s' % (representation(item), representation(item.calculation))
define_variable(em, item) ==
    LET r1 == representation(em.sm, item)
        r2 == representation(r1.sm, calculation[item.v])
    IN [sm |-> r2.sm,
        code |-> Append(em.code, Stmt("def", r1.name, <<r2.name>>, "", 0, "Variable"))]

\* 'const double %s = ' % representation(item), then item.render
define_calculation(em, item) ==
    LET r1 == representation(em.sm, item)
        r2 == names(r1.sm, calcs[item.v].terms, <<>>)
    IN [sm |-> r2.sm,
        code |-> Append(em.code, Stmt("def", r1.name, r2.names, "", 0, calcs[item.v].cls))]

\* write_constfun's loop without "and not item.is_free"
RECURSIVE constfun_defs_m(_, _)
constfun_defs_m(em, constants) ==
    IF constants = <<>> THEN em
    ELSE LET item == Head(constants) IN
         constfun_defs_m(IF IsVariable(item)
                         THEN define_variable(em, item)
                         ELSE IF IsCalculation(item)
                         THEN define_calculation(em, item)
                         ELSE em,
                         Tail(constants))

\* write_constfun's loop over constants
RECURSIVE constfun_defs(_, _)
constfun_defs(em, constants) ==
    IF constants = <<>> THEN em
    ELSE LET item == Head(constants) IN
         constfun_defs(IF IsVariable(item) /\ ~is_free(state, item)
                       THEN define_variable(em, item)
                       ELSE IF IsCalculation(item)
                       THEN define_calculation(em, item)
                       ELSE em,
                       Tail(constants))

\* 'constants[%i] = %s' % (ind, representation(var))
RECURSIVE constfun_stores(_, _, _)
constfun_stores(em, derived_constants, ind) ==
    IF derived_constants = <<>> THEN em
    ELSE LET r == representation(em.sm, Head(derived_constants).var) IN
         constfun_stores([sm |-> r.sm,
                          code |-> Append(em.code,
                                          Stmt("store", "", <<r.name>>, "constants", ind, ""))],
                         Tail(derived_constants), ind + 1)

\* write_constfun: the statements of compute()
write_constfun(sm, input_vars, derived_constants, constants) ==
    constfun_stores(
        constfun_defs(_blat([sm |-> sm, code |-> <<>>], "input", input_vars, 0),
                      constants),
        derived_constants, 0).code

\* write_time_common's loop over time_deps
RECURSIVE time_defs(_, _)
time_defs(em, time_deps) ==
    IF time_deps = <<>> THEN em
    ELSE LET item == Head(time_deps) IN
         time_defs(IF item = time
                   THEN em
                   ELSE IF IsVariable(item) /\ ~is_evolving(state, item)
                   THEN define_variable(em, item)
                   ELSE IF IsCalculation(item)
                   THEN define_calculation(em, item)
                   ELSE em,
                   Tail(time_deps))

\* '%s[%i] = %s' % (arr_name, ind, representation(var.calculation))
RECURSIVE time_stores(_, _, _, _)
time_stores(em, arr_name, to_stuff, ind) ==
    IF to_stuff = <<>> THEN em
    ELSE LET r == representation(em.sm, calculation[Head(to_stuff).var.v]) IN
         time_stores([sm |-> r.sm,
                      code |-> Append(em.code,
                                      Stmt("store", "", <<r.name>>, arr_name, ind, ""))],
                     arr_name, Tail(to_stuff), ind + 1)

\* write_time_common: the statements of odefun() or timedepfun()
write_time_common(sm, input_vars, derived_constants, state_vars, to_stuff, time_deps, arr_name) ==
    LET em0 == [sm |-> sm,
                code |-> <<Stmt("ptr", "constants", <<>>, "input", Len(input_vars), "")>>]
        rt == representation(em0.sm, time)
        em1 == [sm |-> rt.sm,
                code |-> Append(em0.code, Stmt("time", rt.name, <<>>, "time", 0, ""))]
        em2 == _blat(em1, "input", input_vars, 0)
        em3 == _blat(em2, "constants", derived_constants, 0)
        em4 == _blat(em3, "state", state_vars, 0)
        em5 == time_defs(em4, time_deps)
    IN time_stores(em5, arr_name, to_stuff, 0).code

\* write_odefun and write_timedep
write_odefun(sm, input_vars, derived_constants, state_vars, time_deps) ==
    write_time_common(sm, input_vars, derived_constants, state_vars,
                      state_vars, time_deps, "rate")

write_timedep(sm, input_vars, derived_constants, state_vars, time_dep_vars, time_deps) ==
    write_time_common(sm, input_vars, derived_constants, state_vars,
                      time_dep_vars, time_deps, "timedeps")

\* ---------------------------------------------------------------- ODESet.render

\* The reorder arguments the model draws: omitted, or a function that
\* reverses the items, or one that drops the first of them.
Reorders == {"None", "reversed", "tail"}

Reverse(s) == [i \in 1..Len(s) |-> s[Len(s) + 1 - i]]

apply_reorder(reorder, items) ==
    IF reorder = "reversed" THEN Reverse(items)
    ELSE IF reorder = "tail" /\ items # <<>> THEN Tail(items)
    ELSE items

\* ODESet.render after classify_all's loop, for one order the topological
\* sort may return and one reorder argument.
render_result(tsort, reorder) ==
    LET reach == single_source_shortest_path_length(graph, time)
        parts == partition(tsort, reach)
        items == apply_reorder(reorder, variables)
        split == split_given_vars(parts.time_deps, items)
    IN [raised |-> split.raised,
        reorder |-> reorder,
        items |-> items,
        constants |-> parts.constants,
        time_deps |-> parts.time_deps,
        inputs |-> split.inputs,
        derived_constants |-> split.derived_constants,
        evolving |-> split.evolving,
        time_dep |-> split.time_dep,
        compute |-> IF split.raised # "" THEN <<>>
                    ELSE write_constfun(NewSymbolMap, split.inputs,
                                        split.derived_constants, parts.constants),
        odefun |-> IF split.raised # "" THEN <<>>
                   ELSE write_odefun(NewSymbolMap, split.inputs, split.derived_constants,
                                     split.evolving, parts.time_deps),
        timedepfun |-> IF split.raised # "" THEN <<>>
                       ELSE write_timedep(NewSymbolMap, split.inputs,
                                          split.derived_constants, split.evolving,
                                          split.time_dep, parts.time_deps)]

\* The end of classify_all (the sort fails on a cycle) and the rest of render.
Finish ==
    /\ pc = "classify"
    /\ pending = <<>>
    /\ LET sorts == topological_sorts(graph.nodes, graph.edges) IN
       IF sorts = {}
       THEN /\ pc' = "raised"
            /\ err' = "NetworkXUnfeasible"
            /\ out' = out
       ELSE \E tsort \in sorts, reorder \in Reorders :
                LET r == render_result(tsort, reorder) IN
                /\ out' = r
                /\ err' = r.raised
                /\ pc' = IF r.raised = "" THEN "done" ELSE "raised"
    /\ UNCHANGED <<variables, state, calculation, calcs, pending, seen, graph,
                   log, store, count, ret>>

Render == RenderStart \/ ClassifyIter \/ Finish

\* --------------------------------------------- calls of compute/evolve, logged

\* Variable.compute / Variable.evolve, with the call and what came of it
\* (the exception raised, the warning given) kept in log.
\* The rules the logged calls are given: a raw number, a Variable, or a
\* Calculation built by an earlier call.
UpdateArgs == Literals \cup {time} \cup CreatedCalcs

LoggedCall(op, new_state) ==
    \E v \in CreatedVars, nc \in UpdateArgs, yes_really \in BOOLEAN :
        /\ Update(v, nc, new_state, yes_really)
        /\ log' = [op |-> op, var |-> v, arg |-> nc, yes_really |-> yes_really,
                   had_rule |-> (calculation[v.v] # NoneRef),
                   raised |-> UpdateResult(v, nc, new_state, yes_really).raised,
                   warned |-> UpdateResult(v, nc, new_state, yes_really).warned]

ComputeCall == LoggedCall("compute", COMPUTED)

EvolveCall == LoggedCall("evolve", EVOLVING)

NextUpdate == NewVariable \/ ComputeCall \/ EvolveCall

SpecUpdate == Init /\ [][NextUpdate]_vars

\* ------------------------------------------------ calls of one SymbolMap

\* The items representation is called with: nodes and variables by identity,
\* None, and raw numbers.
SymItems ==
    {Var(i) : i \in 0..MaxSymNodes} \cup {Calc(i) : i \in 1..MaxSymNodes}
        \cup {IntLit(2), IntLit(0 - 3), FloatLit(2)}

\* One call of SymbolMap.representation on the map held in store and count.
Represent ==
    \E item \in SymItems :
        LET r == representation([store |-> store, count |-> count], item) IN
        /\ store' = r.sm.store
        /\ count' = r.sm.count
        /\ ret' = [item |-> item, name |-> r.name]
        /\ UNCHANGED <<variables, state, calculation, calcs, pc, pending, seen,
                       graph, out, err, log>>

SpecSym == Init /\ [][Represent]_vars

Next == NewVariable \/ MakeCalc \/ Compute \/ Evolve \/ Render

Spec == Init /\ [][Next]_vars

\* classify_all runs in one thread and is not suspended: an iteration of
\* its loop that can be taken is taken.
SpecFair == Spec /\ WF_vars(ClassifyIter)

\* ---------------------------------------------------------------- properties

Range(s) == {s[i] : i \in 1..Len(s)}

\* The texts of raw numbers: every other name in a statement is a symbol.
NumberTexts == {repr(IntLit(2)), repr(IntLit(0 - 3)), repr(FloatLit(2))}
IsSymbol(n) == n \notin NumberTexts

\* Every symbol on a right-hand side is the left-hand side of an earlier statement.
DefinedBeforeUse(code) ==
    \A i \in 1..Len(code) : \A j \in 1..Len(code[i].rhs) :
        IsSymbol(code[i].rhs[j]) =>
            \E k \in 1..(i - 1) : code[k].lhs = code[i].rhs[j]

\* No symbol is defined by two statements.
DefinedOnce(code) ==
    \A i, j \in 1..Len(code) :
        (i < j /\ code[i].lhs # "") => code[i].lhs # code[j].lhs

\* What a node is computed from: a Calculation from its Node terms, a
\* computed variable from its rule (and, with evolving set, an evolving
\* variable from its rate rule too).
DirectDeps(n, evolving) ==
    IF IsCalculation(n) THEN Range(dependencies(calcs, n))
    ELSE IF IsVariable(n) /\ (is_calculated(state, n) \/ (evolving /\ is_evolving(state, n)))
    THEN {calculation[n.v]}
    ELSE {}

RECURSIVE Closure(_, _)
Closure(S, evolving) ==
    LET more == S \cup UNION {DirectDeps(n, evolving) : n \in S} IN
    IF more = S THEN S ELSE Closure(more, evolving)

\* Everything the rule of v refers to, through operands and the rules of
\* computed variables.
RuleRefs(v) == Closure({calculation[v.v]}, FALSE)

RefersToTime(v) ==
    \E n \in RuleRefs(v) : n = time \/ (IsVariable(n) /\ is_evolving(state, n))

\* The rules of computed variables form a cycle.
ComputedCycle ==
    \E v \in CreatedVars : is_calculated(state, v) /\ v \in RuleRefs(v)

Occurrences(s, x) == Cardinality({i \in 1..Len(s) : s[i] = x})

\* s is t with some entries left out, the order kept.
RECURSIVE IsSubSeq(_, _)
IsSubSeq(s, t) ==
    IF s = <<>> THEN TRUE
    ELSE IF t = <<>> THEN FALSE
    ELSE IF Head(s) = Head(t) THEN IsSubSeq(Tail(s), Tail(t))
    ELSE IsSubSeq(s, Tail(t))

Rendered == pc = "done"

\* C1: with reorder omitted, in compute, odefun and timedepfun every symbol
\* on the right-hand side of a statement (the final stores included) is
\* defined by an earlier statement of the same function.
C1_DefinedBeforeUseEverywhere ==
    (Rendered /\ out.reorder = "None") =>
        /\ DefinedBeforeUse(out.compute)
        /\ DefinedBeforeUse(out.odefun)
        /\ DefinedBeforeUse(out.timedepfun)

\* C2: a computed variable is put in the time-dependent outputs exactly when
\* its rule refers, through operands and rules of computed variables, to
\* time or to an evolving variable, and in the derived constants otherwise.
C2_TimeDepIffRefersToTime ==
    Rendered =>
        \A i \in 1..Len(out.items) :
            LET item == out.items[i] IN
            is_calculated(state, item.var) =>
                /\ (item \in Range(out.time_dep)) <=> RefersToTime(item.var)
                /\ (item \in Range(out.derived_constants)) <=> ~RefersToTime(item.var)

C2_Witness ==
    /\ Rendered
    /\ \E a, b \in Range(out.items) :
        /\ a \in Range(out.time_dep) /\ b \in Range(out.derived_constants)
        /\ time \in RuleRefs(a.var)

\* C3: every entry of the list given to split_given_vars is in exactly one
\* bucket, the buckets together are the list, each in the list's order, and
\* an evolving variable is in the evolving bucket only.
C3_BucketsPartitionTheList ==
    Rendered =>
        LET all == out.inputs \o out.derived_constants \o out.time_dep \o out.evolving IN
        /\ \A item \in Range(out.items) : Occurrences(all, item) = 1
        /\ Range(all) = Range(out.items)
        /\ Len(all) = Len(out.items)
        /\ IsSubSeq(out.inputs, out.items)
        /\ IsSubSeq(out.derived_constants, out.items)
        /\ IsSubSeq(out.time_dep, out.items)
        /\ IsSubSeq(out.evolving, out.items)
        /\ \A item \in Range(out.items) :
            is_evolving(state, item.var) =>
                /\ item \in Range(out.evolving)
                /\ item \notin Range(out.derived_constants) \cup Range(out.time_dep)

C3_Witness ==
    /\ Rendered
    /\ out.reorder = "reversed"
    /\ Len(out.evolving) = 1
    /\ Len(out.time_dep) = 1

\* C4: a call without the override flag on a variable that holds a rule
\* succeeds, warns and replaces rule and state; a call with the flag on a
\* variable without a rule fails and leaves it free without a rule; a
\* variable is free exactly when it holds no rule, and exactly one of
\* is_free, is_calculated, is_evolving is true.
C4_UpdateContract ==
    /\ \A v \in {time} \cup CreatedVars :
        /\ is_free(state, v) <=> calculation[v.v] = NoneRef
        /\ Cardinality({p \in {"free", "calculated", "evolving"} :
                           \/ p = "free" /\ is_free(state, v)
                           \/ p = "calculated" /\ is_calculated(state, v)
                           \/ p = "evolving" /\ is_evolving(state, v)}) = 1
    /\ (log.op # "" /\ ~log.yes_really /\ log.had_rule) =>
        /\ log.raised = ""
        /\ log.warned
        /\ state[log.var.v] = (IF log.op = "compute" THEN COMPUTED ELSE EVOLVING)
        /\ IF IsCalculation(log.arg)
           THEN calculation[log.var.v] = log.arg
           ELSE /\ calculation[log.var.v] = Calc(Len(calcs))
                /\ calcs[Len(calcs)] = [cls |-> "Constant", terms |-> <<log.arg>>]
    /\ (log.op # "" /\ log.yes_really /\ ~log.had_rule) =>
        /\ log.raised = "AssertionError"
        /\ state[log.var.v] = FREE
        /\ calculation[log.var.v] = NoneRef

C4_Witness ==
    /\ log.op = "evolve" /\ ~log.yes_really /\ log.warned
    /\ log.had_rule /\ log.arg = IntLit(2)
    /\ calcs[calculation[log.var.v].v].terms = <<IntLit(2)>>
    /\ state[log.var.v] = EVOLVING
    /\ \E v \in CreatedVars : is_free(state, v)

\* C5: no free named variable of the set is in the time-dependent partition
\* of classify_all, and the assertion of split_given_vars does not fail in
\* render, whatever the order or subset of the set's variables it is given.
C5_NoFreeVariableTimeDependent ==
    /\ err # "AssertionError"
    /\ Rendered =>
        \A v \in CreatedVars : state[v.v] = FREE => v \notin Range(out.time_deps)

C5_Witness ==
    /\ Rendered
    /\ out.reorder = "tail"
    /\ Len(out.time_deps) > 2
    /\ \E i \in 1..Len(out.items) : state[out.items[i].var.v] = FREE

\* C6 as stated: no evolving variable is in the time-dependent partition
\* that classify_all returns.
C6_NoEvolvingInTimeDeps ==
    Rendered =>
        \A v \in CreatedVars : is_evolving(state, v) => v \notin Range(out.time_deps)

\* C6 amended: every evolving variable is in the time-dependent partition
\* that classify_all returns (once), and none is in the time-independent one.
C6_EvolvingAlwaysInTimeDeps ==
    Rendered =>
        \A v \in CreatedVars : is_evolving(state, v) =>
            /\ Occurrences(out.time_deps, v) = 1
            /\ v \notin Range(out.constants)

C6_Witness ==
    /\ Rendered
    /\ \E v \in CreatedVars : is_evolving(state, v) /\ v \in Range(out.time_deps)
    /\ \E v \in CreatedVars : is_calculated(state, v) /\ v \in Range(out.constants)

C8_EveryNodeClassifiedOnce ==
    Rendered =>
        \A n \in Closure(CreatedVars, TRUE) :
            Occurrences(out.constants \o out.time_deps, n) = 1

\* C9: the work-list of classify_all empties; when the rules of computed
\* variables form a cycle the call ends with the sort's error and returns
\* nothing, and otherwise (an evolving rule that refers to its own variable
\* included) it returns the partitions.
C9_LoopEndsAndCycleIsReported ==
    /\ (pc = "classify") ~> (pc = "classify" /\ pending = <<>>)
    /\ [](pc \in {"done", "raised"} =>
            /\ ComputedCycle <=> (pc = "raised" /\ err = "NetworkXUnfeasible")
            /\ ComputedCycle => out = NoRender
            /\ ~ComputedCycle => (pc = "done" /\ out # NoRender))

C9_Witness ==
    /\ pc = "raised" /\ err = "NetworkXUnfeasible" /\ pending = <<>>
    /\ ComputedCycle
    /\ \E v \in CreatedVars :
        is_evolving(state, v) /\ v \in Closure({calculation[v.v]}, TRUE)

\* C10: with reorder omitted, compute() defines no symbol twice and uses
\* only symbols loaded or defined earlier; every time-independent node has
\* only time-independent dependencies, all before it in the constants order;
\* every derived constant is defined before it is stored.
C10_ComputeIsWellOrdered ==
    (Rendered /\ out.reorder = "None") =>
        /\ DefinedOnce(out.compute)
        /\ DefinedBeforeUse(out.compute)
        /\ \A i \in 1..Len(out.constants) :
            \A d \in DirectDeps(out.constants[i], TRUE) :
                \E k \in 1..(i - 1) : out.constants[k] = d
        /\ \A i \in 1..Len(out.derived_constants) :
            \E k \in 1..Len(out.compute) :
                /\ out.compute[k].t = "store"
                /\ out.compute[k].arr = "constants"
                /\ out.compute[k].ind = i - 1
                /\ \E j \in 1..(k - 1) :
                    /\ out.compute[j].t = "def"
                    /\ out.compute[j].lhs = out.compute[k].rhs[1]

C10_Witness ==
    /\ Rendered /\ out.reorder = "None"
    /\ Len(out.derived_constants) = 2
    /\ Len(out.inputs) = 0
    /\ \E k \in 1..Len(out.compute) :
        out.compute[k].t = "def" /\ out.compute[k].cls = "Multiply"
====
